---- MODULE Spec2Model ----
(***************************************************************************)
(* Model of Core::AlbertApp::run and dispatchMessage (albert.cpp): the     *)
(* single-instance gateway over the local socket, the start-up sequence    *)
(* of a running instance and its event loop.  Several invocations of the   *)
(* program run concurrently and share the file system and the socket.      *)
(***************************************************************************)
EXTENDS Integers, Sequences, FiniteSets, TLC

\* Number of invocations of the program that are modelled.
MaxProcs == 2

Procs == 1..MaxProcs

(***************************************************************************)
(* Text.  A QString is a sequence of code points, the bytes on the socket  *)
(* are a sequence of octets; the local 8 bit codec is UTF-8.               *)
(***************************************************************************)
Show   == <<115, 104, 111, 119>>
Hide   == <<104, 105, 100, 101>>
Toggle == <<116, 111, 103, 103, 108, 101>>

\* Positional tokens tried: the three commands, the empty token and an
\* unknown word (one non-ASCII letter).
Tokens == {Show, Hide, Toggle, <<>>, <<233>>}

\* parser.positionalArguments(): the command line declares one optional
\* positional argument, so none or one token.
ArgChoices == {<<>>} \cup {<<t>> : t \in Tokens}

RECURSIVE ToLocal8Bit(_)
ToLocal8Bit(s) ==
    IF s = <<>> THEN <<>>
    ELSE LET c == Head(s) IN
         (IF c < 128 THEN <<c>>
          ELSE <<192 + (c \div 64), 128 + (c % 64)>>) \o ToLocal8Bit(Tail(s))

RECURSIVE FromLocal8Bit(_)
FromLocal8Bit(b) ==
    IF b = <<>> THEN <<>>
    ELSE LET c == Head(b) IN
         IF c < 128 THEN <<c>> \o FromLocal8Bit(Tail(b))
         ELSE IF c >= 192 /\ c < 224 /\ Len(b) >= 2 /\ b[2] >= 128 /\ b[2] < 192
              THEN <<(c - 192) * 64 + (b[2] - 128)>> \o FromLocal8Bit(Tail(Tail(b)))
              ELSE <<65533>> \o FromLocal8Bit(Tail(b))

NoReply == "none"
NoMsg   == <<0>>

AckVisible      == "Application set visible."
AckInvisible    == "Application set invisible."
AckToggled      == "Visibility toggled."
AckNotSupported == "Command not supported."

InfoRunning   == "There is another instance of albert running."
InfoNoRunning == "There is no other instance of albert running."
WarnNoIpc     == "Local server could not be created. IPC will not work!"
FatalDir      == "Could not create dir"
FatalDb       == "Unable to establish a database connection."
FatalHotkey   == "Failed to set hotkey"

FatalNoSqlite       == "No sqlite available"
FatalNoTransactions == "QSqlDriver::Transactions not available."
FatalUsagesTable    == "Unable to create table 'usages'"
FatalRuntimesTable  == "Unable to create table 'runtimes'"
WarnPruneUsages     == "Unable to cleanup usages table."
WarnPruneRuntimes   == "Unable to cleanup runtimes table."
CritVersionRead     == "Could not open file last_used_version. Config migration may fail."
CritVersionWrite    == "Could not open file last_used_version"
WarnUnclean         == "Application has not been terminated graciously."
WarnIndicator       == "Could not create file: running"

\* File and statement failures that the code only logs; a run meets at
\* most MaxFaults of them.
MaxFaults == 1
InjectedFaults == {WarnPruneUsages, WarnPruneRuntimes, CritVersionRead,
                   CritVersionWrite, WarnIndicator}

CurrentVersion == "v0.12.0"
OlderVersion   == "v0.11.2"
VersionFiles   == {"absent", CurrentVersion, OlderVersion}

\* The user's files before the first invocation: a fresh profile, one last
\* used with this version, one last used with an older version.
Profiles == {<<"absent", FALSE>>, <<CurrentVersion, TRUE>>, <<OlderVersion, TRUE>>}

(***************************************************************************)
(* The usage store core.db.  A row is represented by the age of its        *)
(* timestamp in days, julianday('now') - julianday(timestamp).             *)
(***************************************************************************)
UsageRetentionDays   == 90
RuntimeRetentionDays == 7

UsageAges   == {UsageRetentionDays - 1, UsageRetentionDays, UsageRetentionDays + 1}
RuntimeAges == {RuntimeRetentionDays - 1, RuntimeRetentionDays, RuntimeRetentionDays + 1}

\* No database file yet.
EmptyStore == [tables |-> {}, usages |-> {}, runtimes |-> {}]

\* The database a used profile holds: both tables, rows around both limits.
UsedStore == [tables |-> {"usages", "runtimes"}, usages |-> UsageAges,
              runtimes |-> RuntimeAges]

InitialStore(lastUsed) == IF lastUsed = "absent" THEN EmptyStore ELSE UsedStore

CreateTable_Anew(s, t) ==
    [s EXCEPT !.tables = @ \cup {t},
              !.usages = IF t = "usages" THEN {} ELSE @,
              !.runtimes = IF t = "runtimes" THEN {} ELSE @]

\* CREATE TABLE IF NOT EXISTS t (...)
CreateTable(s, t) == [s EXCEPT !.tables = @ \cup {t}]

PruneUsages_FromLimitOn(s) == [s EXCEPT !.usages = {a \in @ : ~(a >= UsageRetentionDays)}]

\* DELETE FROM usages WHERE julianday('now')-julianday(timestamp)>90;
PruneUsages(s) == [s EXCEPT !.usages = {a \in @ : ~(a > UsageRetentionDays)}]

\* DELETE FROM runtimes WHERE julianday('now')-julianday(timestamp)>7;
PruneRuntimes(s) == [s EXCEPT !.runtimes = {a \in @ : ~(a > RuntimeRetentionDays)}]

\* What can go wrong while the database is initialized, by the statement
\* that fails.
DbOutcomes == {"no_driver", "no_transactions", "open_fail", "usages_fail",
               "runtimes_fail", "ok"}

\* applicationVersion().section('.', 1, 1)
Section11(v) == IF v = CurrentVersion THEN "12" ELSE IF v = OlderVersion THEN "11" ELSE ""

(***************************************************************************)
(* The query manager.  A result carries the sequence number of the query   *)
(* it answers and that query's superseded flag.                            *)
(***************************************************************************)
\* Queries submitted within one session.
MaxQueries == 2

IdleQm == [state |-> "Idle", sessions |-> 0, seq |-> 0, ranked |-> {}, flying |-> {},
           error |-> "none"]

\* Nothing was published yet.
NoModel == [at |-> 0, tags |-> {}]

\* Cancellation sets the superseded flag of every query in flight.
Cancelled(flying) == {<<r[1], TRUE>> : r \in flying}

SetupSession_Reopens(q) ==
    [q EXCEPT !.state = "SessionActive", !.sessions = @ + 1, !.seq = 0, !.ranked = {},
              !.error = "none"]

\* openSession(): Idle -> SessionActive; InvalidStateError if a session is
\* active.
SetupSession(q) ==
    IF q.state # "Idle"
    THEN [q EXCEPT !.error = "InvalidStateError"]
    ELSE [q EXCEPT !.state = "SessionActive", !.sessions = @ + 1, !.seq = 0, !.ranked = {},
                   !.error = "none"]

TeardownSession_KeepsQuery(q) ==
    IF q.state = "Idle" THEN q
    ELSE [q EXCEPT !.state = "Idle", !.sessions = @ - 1, !.seq = 0, !.ranked = {},
                   !.error = "none"]

\* closeSession(): SessionActive|Querying -> Idle; the query in flight is
\* cancelled, the ranked sequence is discarded.
TeardownSession(q) ==
    IF q.state = "Idle" THEN q
    ELSE [q EXCEPT !.state = "Idle", !.sessions = @ - 1, !.seq = 0, !.ranked = {},
                   !.flying = Cancelled(@), !.error = "none"]

\* submitQuery(text): SessionActive|Querying -> Querying; the previous
\* query is cancelled and its results are discarded, the next sequence
\* number is assigned.
StartQuery(q) ==
    IF q.state = "Idle"
    THEN [q EXCEPT !.error = "InvalidStateError"]
    ELSE [q EXCEPT !.state = "Querying", !.seq = @ + 1, !.ranked = {},
                   !.flying = Cancelled(@) \cup {<<q.seq + 1, FALSE>>}, !.error = "none"]

Accepts_Any(q, r) == q.state = "Querying"

\* A result is merged for the currently active sequence number only.
Accepts(q, r) == q.state = "Querying" /\ ~r[2] /\ r[1] = q.seq

\* Provider result arrival; last: the provider has finished.
ResultArrived(q, r, last) ==
    LET left == IF last THEN q.flying \ {r} ELSE q.flying
    IN  IF Accepts(q, r)
        THEN [q EXCEPT !.ranked = @ \cup {r[1]}, !.flying = left,
                       !.state = IF last THEN "SessionActive" ELSE @]
        ELSE [q EXCEPT !.flying = left]

\* resultsReady -> Frontend::setModel: the ranked sequence of the query
\* manager as it is after the merge.
Published(q) == [at |-> q.seq, tags |-> q.ranked]

(***************************************************************************)
(* Front-ends and their connections.  Front-ends are numbered in the order *)
(* in which the front-end manager makes them current.                      *)
(***************************************************************************)
\* Front-ends an instance makes current during its run.
MaxFrontends == 2

\* No front-end manager: no front-end, no connection.
NoWiring == [current |-> 0, alive |-> {}, wired |-> {}, tray |-> {}, toggled |-> {}]

\* new FrontendManager(pluginDirs): the first front-end is current.
FirstFrontend == [NoWiring EXCEPT !.current = 1, !.alive = {1}]

\* connectFrontend(f): hotKeyPressed, resultsReady and the show action are
\* connected to f, f's widgetShown, widgetHidden and inputChanged to the
\* query manager, and trayIcon's activated to a functor that holds f.
ConnectFrontend(w, f) == [w EXCEPT !.wired = @ \cup {f}, !.tray = @ \cup {f}]

\* What the front-end manager does with the front-end it replaces.
ReplacedFrontend == {"kept", "destroyed"}

\* The front-end manager makes the next front-end current; a destroyed
\* QObject loses the connections it is sender or receiver of, a functor
\* connected without a context object stays connected.
Replace(w, fate) ==
    [w EXCEPT !.current = @ + 1,
              !.alive = (IF fate = "kept" THEN @ ELSE @ \ {w.current}) \cup {w.current + 1},
              !.wired = IF fate = "kept" THEN @ ELSE @ \ {w.current},
              !.toggled = {}]

\* The frontendChanged functor calls connectFrontend through a reference to
\* a local of a block that has ended.
DanglingOutcomes == {"connected", "crash"}

\* A functor calls toggleVisibility of a front-end that has been destroyed.
DeadObjectOutcomes == {"crash", "unnoticed"}

VARIABLES
    pc,            \* position of each invocation in run()
    args,          \* its positional arguments
    exitKind,      \* how it ended: none, success, failure, fatal, return, killed, segv
    log,           \* what it printed: sequence of <<level, text>>
    ops,           \* the gateway operations it performed, in order
    sockFile,      \* the socket file at the well-known path: 0 absent, else who bound it
    listening,     \* the invocation holds a bound, listening local server
    handler,       \* dispatchMessage is connected to newConnection
    pending,       \* connections queued on each server, not yet dispatched
    servicing,     \* the connection dispatchMessage is blocked on, 0 if none
    connTo,        \* the server a client's socket is connected to, 0 if none
    wire,          \* bytes the client wrote to its socket
    written,       \* bytes the server wrote to the connection
    reply,         \* bytes of the server that reached the client's socket
    rcvd,          \* the text dispatchMessage read from the connection
    fired,         \* front-end actions dispatchMessage fired for the connection
    clientClosed,  \* the client closed its end
    serverClosed,  \* the server closed its end (or died)
    fmExists,      \* frontendManager has been constructed and not deleted
    visible,       \* visibility of the current front-end
    versionFile,   \* the last_used_version file
    noteShown,     \* settings value standsalone_note_shown
    store,         \* core.db: its tables and the age in days of their rows
    steps,         \* the start-up and shutdown steps an instance performed, in order
    runningFile,   \* the file "running" in the cache location exists
    quitQueued,    \* a queued call of QApplication::quit is posted to the instance
    faultsInjected,\* how many merely logged failures the environment injects in this run
    tokensTried,   \* the positional tokens the users type in this run
    dbFailures,    \* the ways the database initialization fails in this run
    overlapping,   \* invocations are started while earlier ones still run
    qm,            \* the query manager of each instance: session, query, results
    feModel,       \* what the front-end's setModel last received
    wiring         \* the front-ends of each instance and the connections to them

procVars == <<pc, args, exitKind, log, ops>>
srvVars  == <<sockFile, listening, handler, pending, servicing>>
connVars == <<connTo, wire, written, reply, rcvd, fired, clientClosed, serverClosed>>
feVars   == <<fmExists, visible>>
fileVars == <<versionFile, noteShown>>
storeVars == <<store, steps>>
runVars  == <<runningFile, quitQueued>>
envVars  == <<faultsInjected, tokensTried, dbFailures, overlapping>>
qmVars   == <<qm, feModel>>
vars     == <<procVars, srvVars, connVars, feVars, fileVars, storeVars, runVars, envVars,
              qmVars, wiring>>

ClientPcs == {"c_write", "c_wait", "c_info"}
DialogPcs == {"version_dialog", "note_dialog", "hotkey_dialog"}
LoopPcs   == DialogPcs \cup {"exec"}
ServerPcs == {"remove", "listen", "paths", "db",
              "components", "hotkey", "misc", "finalize"} \cup LoopPcs

\* The state before the first invocation, for a given environment.
Start(faults, tokens, dbFails, profiles, overlap) ==
    /\ overlapping = overlap
    /\ faultsInjected = faults
    /\ tokensTried = tokens
    /\ dbFailures = dbFails
    /\ pc = [p \in Procs |-> "idle"]
    /\ args = [p \in Procs |-> <<>>]
    /\ exitKind = [p \in Procs |-> "none"]
    /\ log = [p \in Procs |-> <<>>]
    /\ ops = [p \in Procs |-> <<>>]
    /\ sockFile = 0
    /\ listening = [p \in Procs |-> FALSE]
    /\ handler = [p \in Procs |-> FALSE]
    /\ pending = [p \in Procs |-> <<>>]
    /\ servicing = [p \in Procs |-> 0]
    /\ connTo = [p \in Procs |-> 0]
    /\ wire = [p \in Procs |-> <<>>]
    /\ written = [p \in Procs |-> NoReply]
    /\ reply = [p \in Procs |-> NoReply]
    /\ rcvd = [p \in Procs |-> NoMsg]
    /\ fired = [p \in Procs |-> <<>>]
    /\ clientClosed = [p \in Procs |-> FALSE]
    /\ serverClosed = [p \in Procs |-> FALSE]
    /\ fmExists = [p \in Procs |-> FALSE]
    /\ visible = [p \in Procs |-> FALSE]
    /\ \E prof \in profiles : versionFile = prof[1] /\ noteShown = prof[2]
    /\ store = InitialStore(versionFile)
    /\ steps = [p \in Procs |-> <<>>]
    /\ runningFile = FALSE
    /\ quitQueued = [p \in Procs |-> FALSE]
    /\ qm = [p \in Procs |-> IdleQm]
    /\ feModel = [p \in Procs |-> NoModel]
    /\ wiring = [p \in Procs |-> NoWiring]

\* Every token and every profile is tried; the database may fail to open;
\* no other file or statement failure is injected.
Init == Start(0, Tokens, {"open_fail"}, Profiles, TRUE)

\* One command token and the empty token are tried on a fresh profile;
\* nothing fails.
PlainInit == Start(0, {Show, <<>>}, {}, {<<"absent", FALSE>>}, TRUE)

\* File and statement failures are injected at every place the code checks
\* for one; the invocations carry no token and run one after the other on
\* the profile of an older version that has not shown the note.
FaultyInit == Start(MaxFaults, {}, DbOutcomes \ {"ok"}, {<<OlderVersion, FALSE>>}, FALSE)

Has(seq, x) == \E i \in 1..Len(seq) : seq[i] = x

Also(l, p, lvl, text) == [l EXCEPT ![p] = Append(@, <<lvl, text>>)]
Logged(p, lvl, text) == Also(log, p, lvl, text)
Stepped(p, done) == [steps EXCEPT ![p] = @ \o done]

\* Number of merely logged failures met so far in the run.
Faults ==
    Cardinality({x \in UNION {{<<q, i>> : i \in DOMAIN log[q]} : q \in Procs} :
                    log[x[1]][x[2]][2] \in InjectedFaults})
Cost(failed) == IF failed THEN 1 ELSE 0
Did(p, done) == [ops EXCEPT ![p] = @ \o done]

\* The kernel closes every socket of a process that ends.
ConnsClosedBy(p) == [c \in Procs |-> IF connTo[c] = p THEN TRUE ELSE serverClosed[c]]

\* The process ends without closing its server: its sockets and its objects
\* are gone, the socket file stays.
ProcessGone(p) ==
    /\ listening' = [listening EXCEPT ![p] = FALSE]
    /\ pending' = [pending EXCEPT ![p] = <<>>]
    /\ servicing' = [servicing EXCEPT ![p] = 0]
    /\ serverClosed' = ConnsClosedBy(p)
    /\ fmExists' = [fmExists EXCEPT ![p] = FALSE]
    /\ visible' = [visible EXCEPT ![p] = FALSE]
    /\ qm' = [qm EXCEPT ![p] = IdleQm]
    /\ feModel' = [feModel EXCEPT ![p] = NoModel]
    /\ wiring' = [wiring EXCEPT ![p] = NoWiring]
    /\ UNCHANGED <<sockFile, handler, connTo, wire, written, reply, fired, clientClosed>>

\* qFatal: myMessageOutput prints the message and calls exit(1).
Fatal(p, text) ==
    /\ pc' = [pc EXCEPT ![p] = "done"]
    /\ exitKind' = [exitKind EXCEPT ![p] = "fatal"]
    /\ log' = Logged(p, "FATAL", text)
    /\ ProcessGone(p)
    /\ UNCHANGED <<args, ops, rcvd, fileVars, store, runVars, envVars>>

----
\* if ( args.count() == 1 ) after a successful connect
SendsCommand(a) == Len(a) = 1

FailsAsCommand_Never(a) == FALSE

\* else if ( args.count() == 1 ) after a failed connect
FailsAsCommand(a) == Len(a) = 1

\* The invocation starts (application object, command line), then
\* socket.connectToServer / waitForConnected and the branch on its result.
Connect(p) ==
    /\ pc[p] = "idle"
    /\ \A q \in Procs : q < p => pc[q] # "idle" /\ (overlapping \/ pc[q] = "done")
    /\ \E a \in ArgChoices :
          /\ \A i \in DOMAIN a : a[i] \in tokensTried
          /\ args' = [args EXCEPT ![p] = a]
    /\ IF sockFile # 0 /\ listening[sockFile]
       THEN /\ connTo' = [connTo EXCEPT ![p] = sockFile]
            /\ pending' = [pending EXCEPT ![sockFile] = Append(@, p)]
            /\ pc' = [pc EXCEPT ![p] = IF SendsCommand(args'[p]) THEN "c_write" ELSE "c_info"]
            /\ ops' = Did(p, <<"connect_ok">>)
            /\ UNCHANGED <<exitKind, log>>
       ELSE /\ UNCHANGED <<connTo, pending>>
            /\ IF FailsAsCommand(args'[p])
               THEN /\ log' = Logged(p, "INFO", InfoNoRunning)
                    /\ ops' = Did(p, <<"connect_fail", "exit_failure">>)
                    /\ pc' = [pc EXCEPT ![p] = "done"]
                    /\ exitKind' = [exitKind EXCEPT ![p] = "failure"]
               ELSE /\ ops' = Did(p, <<"connect_fail">>)
                    /\ pc' = [pc EXCEPT ![p] = "remove"]
                    /\ UNCHANGED <<exitKind, log>>
    /\ UNCHANGED <<sockFile, listening, handler, servicing,
                   wire, written, reply, rcvd, fired, clientClosed, serverClosed, feVars, fileVars,
                   storeVars, runVars, envVars, qmVars, wiring>>

ClientWrite_LineFeed(p) ==
    /\ pc[p] = "c_write"
    /\ wire' = [wire EXCEPT ![p] = ToLocal8Bit(args[p][1]) \o <<10>>]
    /\ ops' = Did(p, <<"write">>)
    /\ pc' = [pc EXCEPT ![p] = "c_wait"]
    /\ UNCHANGED <<args, exitKind, log, srvVars, connTo, written, reply, rcvd, fired,
                   clientClosed, serverClosed, feVars, fileVars, storeVars, runVars, envVars, qmVars, wiring>>

\* socket.write(args.at(0).toLocal8Bit()); socket.flush()
ClientWrite(p) ==
    /\ pc[p] = "c_write"
    /\ wire' = [wire EXCEPT ![p] = ToLocal8Bit(args[p][1])]
    /\ ops' = Did(p, <<"write">>)
    /\ pc' = [pc EXCEPT ![p] = "c_wait"]
    /\ UNCHANGED <<args, exitKind, log, srvVars, connTo, written, reply, rcvd, fired,
                   clientClosed, serverClosed, feVars, fileVars, storeVars, runVars, envVars, qmVars, wiring>>

ClientWait_Unbounded(p) ==
    /\ pc[p] = "c_wait"
    /\ reply[p] # NoReply
    /\ log' = Logged(p, "INFO", reply[p])
    /\ ops' = Did(p, <<"wait", "print", "close", "exit_success">>)
    /\ clientClosed' = [clientClosed EXCEPT ![p] = TRUE]
    /\ pc' = [pc EXCEPT ![p] = "done"]
    /\ exitKind' = [exitKind EXCEPT ![p] = "success"]
    /\ UNCHANGED <<args, srvVars, connTo, wire, written, reply, rcvd, fired, serverClosed,
                   feVars, fileVars, storeVars, runVars, envVars, qmVars, wiring>>

\* socket.waitForReadyRead(500); if (socket.bytesAvailable()) qInfo() << readAll();
\* socket.close(); ::exit(EXIT_SUCCESS)
ClientWait(p) ==
    /\ pc[p] = "c_wait"
    /\ IF reply[p] # NoReply
       THEN /\ log' = Logged(p, "INFO", reply[p])
            /\ ops' = Did(p, <<"wait", "print", "close", "exit_success">>)
       ELSE /\ ops' = Did(p, <<"wait", "close", "exit_success">>)
            /\ UNCHANGED log
    /\ clientClosed' = [clientClosed EXCEPT ![p] = TRUE]
    /\ pc' = [pc EXCEPT ![p] = "done"]
    /\ exitKind' = [exitKind EXCEPT ![p] = "success"]
    /\ UNCHANGED <<args, srvVars, connTo, wire, written, reply, rcvd, fired, serverClosed,
                   feVars, fileVars, storeVars, runVars, envVars, qmVars, wiring>>

\* qInfo("There is another instance of albert running."); socket.close();
\* ::exit(EXIT_SUCCESS)
ClientInfo_RemovesEndpoint(p) ==
    /\ pc[p] = "c_info"
    /\ log' = Logged(p, "INFO", InfoRunning)
    /\ ops' = Did(p, <<"info_running", "close", "exit_success">>)
    /\ clientClosed' = [clientClosed EXCEPT ![p] = TRUE]
    /\ pc' = [pc EXCEPT ![p] = "done"]
    /\ exitKind' = [exitKind EXCEPT ![p] = "success"]
    /\ sockFile' = 0
    /\ UNCHANGED <<args, listening, handler, pending, servicing, connTo, wire, written, reply,
                   rcvd, fired, serverClosed, feVars, fileVars, storeVars, runVars, envVars,
                   qmVars, wiring>>

ClientInfo(p) ==
    /\ pc[p] = "c_info"
    /\ log' = Logged(p, "INFO", InfoRunning)
    /\ ops' = Did(p, <<"info_running", "close", "exit_success">>)
    /\ clientClosed' = [clientClosed EXCEPT ![p] = TRUE]
    /\ pc' = [pc EXCEPT ![p] = "done"]
    /\ exitKind' = [exitKind EXCEPT ![p] = "success"]
    /\ UNCHANGED <<args, srvVars, connTo, wire, written, reply, rcvd, fired, serverClosed,
                   feVars, fileVars, storeVars, runVars, envVars, qmVars, wiring>>

----
\* QLocalServer::removeServer(socketPath)
RemoveServer(p) ==
    /\ pc[p] = "remove"
    /\ sockFile' = 0
    /\ ops' = Did(p, <<"remove">>)
    /\ pc' = [pc EXCEPT ![p] = "listen"]
    /\ UNCHANGED <<args, exitKind, log, listening, handler, pending, servicing,
                   connVars, feVars, fileVars, storeVars, runVars, envVars, qmVars, wiring>>

Listen_FatalOnFailure(p) ==
    /\ pc[p] = "listen"
    /\ \E bindOk \in BOOLEAN :
          IF sockFile = 0 /\ bindOk
          THEN /\ sockFile' = p
               /\ listening' = [listening EXCEPT ![p] = TRUE]
               /\ ops' = Did(p, <<"listen_ok", "register">>)
               /\ handler' = [handler EXCEPT ![p] = TRUE]
               /\ pc' = [pc EXCEPT ![p] = "paths"]
               /\ UNCHANGED <<args, exitKind, log, pending, servicing, connVars,
                              feVars, fileVars, storeVars, runVars, envVars, qmVars, wiring>>
          ELSE /\ pc' = [pc EXCEPT ![p] = "done"]
               /\ exitKind' = [exitKind EXCEPT ![p] = "fatal"]
               /\ log' = Logged(p, "FATAL", WarnNoIpc)
               /\ ops' = Did(p, <<"listen_fail">>)
               /\ UNCHANGED <<args, srvVars, connVars, feVars, fileVars, storeVars, runVars, envVars, qmVars, wiring>>

\* localServer = new QLocalServer; localServer->listen(socketPath), a warning
\* if that fails; then dispatchMessage is connected to newConnection.
Listen(p) ==
    /\ pc[p] = "listen"
    /\ \E bindOk \in BOOLEAN :
          IF sockFile = 0 /\ bindOk
          THEN /\ sockFile' = p
               /\ listening' = [listening EXCEPT ![p] = TRUE]
               /\ ops' = Did(p, <<"listen_ok", "register">>)
               /\ UNCHANGED log
          ELSE /\ log' = Logged(p, "WARN", WarnNoIpc)
               /\ ops' = Did(p, <<"listen_fail", "register">>)
               /\ UNCHANGED <<sockFile, listening>>
    /\ handler' = [handler EXCEPT ![p] = TRUE]
    /\ pc' = [pc EXCEPT ![p] = "paths"]
    /\ UNCHANGED <<args, exitKind, pending, servicing, connVars, feVars, fileVars, storeVars, runVars, envVars, qmVars, wiring>>

----
\* Does the first-run / version-change check open a message box?
NeedsVersionDialog ==
    \/ versionFile = "absent"
    \/ Section11(CurrentVersion) # Section11(versionFile)

\* Make sure data, cache and config dir exist (qFatal otherwise); check the
\* last used version: the file is read (qCritical if it cannot be opened),
\* then either a QMessageBox runs its own event loop, or the current
\* version is written right away (qCritical if that fails).
Paths(p) ==
    /\ pc[p] = "paths"
    /\ \E mkpathOk, readOk, writeOk \in BOOLEAN :
          IF ~mkpathOk
          THEN /\ Fatal(p, FatalDir)
               /\ steps' = Stepped(p, <<"mkpath_fail">>)
          ELSE LET readFails == versionFile # "absent" /\ ~readOk
                   dialog    == ~readFails /\ NeedsVersionDialog
                   afterRead == IF readFails THEN Logged(p, "CRIT", CritVersionRead) ELSE log
               IN  /\ Faults + Cost(readFails) + Cost(~dialog /\ ~writeOk) <= faultsInjected
                   /\ IF dialog
                      THEN /\ pc' = [pc EXCEPT ![p] = "version_dialog"]
                           /\ UNCHANGED <<versionFile, log>>
                      ELSE /\ pc' = [pc EXCEPT ![p] = "db"]
                           /\ versionFile' = IF writeOk THEN CurrentVersion ELSE versionFile
                           /\ log' = IF writeOk THEN afterRead
                                     ELSE Also(afterRead, p, "CRIT", CritVersionWrite)
                   /\ steps' = Stepped(p, <<"mkpath">>)
                   /\ UNCHANGED <<args, exitKind, ops, srvVars, connVars, feVars, noteShown,
                                  store, runVars, envVars, qmVars, wiring>>

VersionDialogClose_FatalOnWriteFailure(p) ==
    /\ pc[p] = "version_dialog"
    /\ servicing[p] = 0
    /\ \E writeOk \in BOOLEAN :
          IF writeOk
          THEN /\ versionFile' = CurrentVersion
               /\ pc' = [pc EXCEPT ![p] = "db"]
               /\ UNCHANGED <<args, exitKind, log, ops, srvVars, connVars, feVars, noteShown,
                              storeVars, runVars, envVars, qmVars, wiring>>
          ELSE /\ Faults + 1 <= faultsInjected
               /\ Fatal(p, CritVersionWrite)
               /\ UNCHANGED steps

\* The message box returns; the current version is written into the file.
VersionDialogClose(p) ==
    /\ pc[p] = "version_dialog"
    /\ servicing[p] = 0
    /\ \E writeOk \in BOOLEAN :
          /\ Faults + Cost(~writeOk) <= faultsInjected
          /\ versionFile' = IF writeOk THEN CurrentVersion ELSE versionFile
          /\ log' = IF writeOk THEN log ELSE Logged(p, "CRIT", CritVersionWrite)
    /\ pc' = [pc EXCEPT ![p] = "db"]
    /\ UNCHANGED <<args, exitKind, ops, srvVars, connVars, feVars, noteShown, storeVars, runVars, envVars, qmVars, wiring>>

----
DbFatalText_OpenUnchecked(out) ==
    CASE out = "no_driver"       -> FatalNoSqlite
      [] out = "no_transactions" -> FatalNoTransactions
      [] out = "usages_fail"     -> FatalUsagesTable
      [] out = "runtimes_fail"   -> FatalRuntimesTable
      [] OTHER                   -> ""

\* The outcomes the code answers with qFatal, and the message.
DbFatalText(out) ==
    CASE out = "no_driver"       -> FatalNoSqlite
      [] out = "no_transactions" -> FatalNoTransactions
      [] out = "open_fail"       -> FatalDb
      [] out = "usages_fail"     -> FatalUsagesTable
      [] out = "runtimes_fail"   -> FatalRuntimesTable
      [] OTHER                   -> ""

\* The statements run up to the one that fails.
DbSteps(out) ==
    CASE out = "no_driver"       -> <<"addDatabase_invalid">>
      [] out = "no_transactions" -> <<"addDatabase", "hasFeature_fail">>
      [] out = "open_fail"       -> <<"addDatabase", "hasFeature", "open_fail">>
      [] out = "usages_fail"     -> <<"addDatabase", "hasFeature", "open", "transaction",
                                      "create_usages_fail">>
      [] out = "runtimes_fail"   -> <<"addDatabase", "hasFeature", "open", "transaction",
                                      "create_usages", "create_runtimes_fail">>
      [] OTHER                   -> <<"addDatabase", "hasFeature", "open", "transaction",
                                      "create_usages", "create_runtimes">>

\* What one statement does to the tables and rows.
Exec(s, stmt) ==
    CASE stmt = "create_usages"   -> CreateTable(s, "usages")
      [] stmt = "create_runtimes" -> CreateTable(s, "runtimes")
      [] stmt = "prune_usages"    -> PruneUsages(s)
      [] stmt = "prune_runtimes"  -> PruneRuntimes(s)
      [] OTHER                    -> s

RECURSIVE Run(_, _)
Run(s, stmts) == IF stmts = <<>> THEN s ELSE Run(Exec(s, Head(stmts)), Tail(stmts))

\* The file after the statements: what they did if db.commit() was among
\* them, else what it held before db.transaction().
Committed(s, stmts) == IF Has(stmts, "commit") THEN Run(s, stmts) ELSE s

PruneSteps_StopAtFailure(usagesOk, runtimesOk) ==
    IF ~usagesOk THEN <<"prune_usages_fail">>
    ELSE IF ~runtimesOk THEN <<"prune_usages", "prune_runtimes_fail">>
    ELSE <<"prune_usages", "prune_runtimes", "commit">>

\* The regular cleanup: both delete statements run whatever the first
\* returns, then db.commit().
PruneSteps(usagesOk, runtimesOk) ==
    <<IF usagesOk THEN "prune_usages" ELSE "prune_usages_fail",
      IF runtimesOk THEN "prune_runtimes" ELSE "prune_runtimes_fail",
      "commit">>

\* Initialize database: driver, transactions, open (qFatal on failure); in
\* one transaction create both tables (qFatal on failure) and delete the
\* old rows (qWarning on failure); commit.  exit(1) inside the transaction
\* leaves nothing of it in the file.
Database(p) ==
    /\ pc[p] = "db"
    /\ \E out \in DbOutcomes, pruneUsagesOk, pruneRuntimesOk \in BOOLEAN :
          IF DbFatalText(out) # ""
          THEN /\ out \in dbFailures
               /\ pruneUsagesOk /\ pruneRuntimesOk
               /\ Fatal(p, DbFatalText(out))
               /\ steps' = Stepped(p, DbSteps(out))
          ELSE LET done == DbSteps(out) \o PruneSteps(pruneUsagesOk, pruneRuntimesOk)
                   log1 == IF pruneUsagesOk THEN log
                           ELSE Logged(p, "WARN", WarnPruneUsages)
                   log2 == IF pruneRuntimesOk THEN log1
                           ELSE Also(log1, p, "WARN", WarnPruneRuntimes)
               IN  /\ Faults + Cost(~pruneUsagesOk) + Cost(~pruneRuntimesOk) <= faultsInjected
                   /\ store' = Committed(store, done)
                   /\ log' = log2
                   /\ steps' = Stepped(p, done)
                   /\ pc' = [pc EXCEPT ![p] = "components"]
                   /\ UNCHANGED <<args, exitKind, ops, srvVars, connVars, feVars, fileVars, runVars, envVars, qmVars, wiring>>

\* frontendManager = new FrontendManager ... tray icon; then the standalone note.
Components(p) ==
    /\ pc[p] = "components"
    /\ fmExists' = [fmExists EXCEPT ![p] = TRUE]
    /\ pc' = [pc EXCEPT ![p] = IF noteShown THEN "hotkey" ELSE "note_dialog"]
    /\ steps' = Stepped(p, <<"components">>)
    /\ wiring' = [wiring EXCEPT ![p] = FirstFrontend]
    /\ UNCHANGED <<args, exitKind, log, ops, srvVars, connVars, visible, fileVars, store, runVars, envVars, qmVars>>

\* The standalone note returns; settings.setValue("standsalone_note_shown", true)
NoteDialogClose(p) ==
    /\ pc[p] = "note_dialog"
    /\ servicing[p] = 0
    /\ noteShown' = TRUE
    /\ pc' = [pc EXCEPT ![p] = "hotkey"]
    /\ UNCHANGED <<args, exitKind, log, ops, srvVars, connVars, feVars, versionFile, storeVars, runVars, envVars, qmVars, wiring>>

HotkeySources == {"none", "cmdline", "settings"}

\* Hotkey: command line override (qFatal on failure), settings entry (message
\* box on failure), or none.
Hotkey(p) ==
    /\ pc[p] = "hotkey"
    /\ \E src \in HotkeySources, registerOk \in BOOLEAN :
          IF src = "cmdline" /\ ~registerOk
          THEN /\ Fatal(p, FatalHotkey)
               /\ steps' = Stepped(p, <<"hotkey_fail">>)
          ELSE /\ pc' = [pc EXCEPT ![p] = IF src = "settings" /\ ~registerOk
                                          THEN "hotkey_dialog" ELSE "misc"]
               /\ UNCHANGED <<args, exitKind, log, ops, srvVars, connVars, feVars, fileVars, storeVars, runVars, envVars, qmVars, wiring>>

HotkeyDialogClose(p) ==
    /\ pc[p] = "hotkey_dialog"
    /\ servicing[p] = 0
    /\ pc' = [pc EXCEPT ![p] = "misc"]
    /\ UNCHANGED <<args, exitKind, log, ops, srvVars, connVars, feVars, fileVars, storeVars, runVars, envVars, qmVars, wiring>>

\* Signal handlers are installed; the running indicator is checked (a
\* warning if it exists) or created (a warning if that fails); settings
\* widget, signal wiring; then app->exec().
Misc(p) ==
    /\ pc[p] = "misc"
    /\ \E createOk \in BOOLEAN :
          IF runningFile
          THEN /\ createOk
               /\ log' = Logged(p, "WARN", WarnUnclean)
               /\ steps' = Stepped(p, <<"signals", "indicator_exists", "wiring", "exec">>)
               /\ UNCHANGED runningFile
          ELSE /\ Faults + Cost(~createOk) <= faultsInjected
               /\ runningFile' = createOk
               /\ log' = IF createOk THEN log ELSE Logged(p, "WARN", WarnIndicator)
               /\ steps' = Stepped(p, <<"signals",
                                        IF createOk THEN "indicator" ELSE "indicator_fail",
                                        "wiring", "exec">>)
    /\ wiring' = [wiring EXCEPT ![p] = ConnectFrontend(@, @.current)]
    /\ pc' = [pc EXCEPT ![p] = "exec"]
    /\ UNCHANGED <<args, exitKind, ops, srvVars, connVars, feVars, fileVars, store, quitQueued, envVars, qmVars>>

----
\* The front-end's widgetShown and widgetHidden are connected to
\* setupSession and teardownSession when the signals are wired, right before
\* app->exec(): the query manager after the visibility becomes v.
AfterVisibility(p, v) ==
    IF pc[p] # "exec" \/ v = visible[p] THEN qm[p]
    ELSE IF v THEN SetupSession(qm[p])
    ELSE TeardownSession(qm[p])

\* hotkeyManager hotKeyPressed -> Frontend::toggleVisibility, delivered by
\* the event loop of the control thread.
HotkeyPressed(p) ==
    /\ pc[p] = "exec"
    /\ servicing[p] = 0
    /\ visible' = [visible EXCEPT ![p] = ~@]
    /\ qm' = [qm EXCEPT ![p] = AfterVisibility(p, ~visible[p])]
    /\ UNCHANGED <<procVars, srvVars, connVars, fmExists, fileVars, storeVars, runVars, envVars,
                   feModel, wiring>>

\* frontendManager frontendChanged -> connectFrontend(f), delivered by the
\* event loop: the front-end manager has made the next front-end current,
\* which is not shown yet.
FrontendChanged(p) ==
    /\ pc[p] = "exec"
    /\ servicing[p] = 0
    /\ wiring[p].current < MaxFrontends
    /\ \E fate \in ReplacedFrontend, o \in DanglingOutcomes :
          IF o = "crash"
          THEN /\ pc' = [pc EXCEPT ![p] = "done"]
               /\ exitKind' = [exitKind EXCEPT ![p] = "segv"]
               /\ ProcessGone(p)
               /\ UNCHANGED <<args, log, ops, rcvd, fileVars, storeVars, runVars, envVars>>
          ELSE /\ wiring' = [wiring EXCEPT ![p] =
                                 ConnectFrontend(Replace(@, fate), @.current + 1)]
               /\ visible' = [visible EXCEPT ![p] = FALSE]
               /\ qm' = [qm EXCEPT ![p] = AfterVisibility(p, FALSE)]
               /\ UNCHANGED <<procVars, srvVars, connVars, fmExists, fileVars, storeVars,
                              runVars, envVars, feModel>>

\* trayIcon activated(Trigger): every functor connected by connectFrontend
\* calls toggleVisibility of the front-end it holds; a call on a destroyed
\* front-end crashes or goes unnoticed.
TrayActivated(p) ==
    /\ pc[p] = "exec"
    /\ servicing[p] = 0
    /\ \E o \in DeadObjectOutcomes :
          IF o = "crash"
          THEN /\ ~(wiring[p].tray \subseteq wiring[p].alive)
               /\ pc' = [pc EXCEPT ![p] = "done"]
               /\ exitKind' = [exitKind EXCEPT ![p] = "segv"]
               /\ ProcessGone(p)
               /\ UNCHANGED <<args, log, ops, rcvd, fileVars, storeVars, runVars, envVars>>
          ELSE /\ wiring' = [wiring EXCEPT ![p].toggled = wiring[p].tray]
               /\ visible' = [visible EXCEPT ![p] =
                                 IF wiring[p].current \in wiring[p].tray THEN ~@ ELSE @]
               /\ qm' = [qm EXCEPT ![p] = AfterVisibility(p, visible'[p])]
               /\ UNCHANGED <<procVars, srvVars, connVars, fmExists, fileVars, storeVars,
                              runVars, envVars, feModel>>

\* The front-end emits widgetShown while it is shown already.
ShownAgain(p) ==
    /\ pc[p] = "exec"
    /\ servicing[p] = 0
    /\ visible[p]
    /\ qm' = [qm EXCEPT ![p] = SetupSession(@)]
    /\ UNCHANGED <<procVars, srvVars, connVars, feVars, fileVars, storeVars, runVars, envVars,
                   feModel, wiring>>

\* Frontend::inputChanged -> QueryManager::startQuery
InputChanged(p) ==
    /\ pc[p] = "exec"
    /\ servicing[p] = 0
    /\ visible[p]
    /\ qm[p].seq < MaxQueries
    /\ qm' = [qm EXCEPT ![p] = StartQuery(@)]
    /\ UNCHANGED <<procVars, srvVars, connVars, feVars, fileVars, storeVars, runVars, envVars,
                   feModel, wiring>>

\* A provider's result is delivered to the control thread; what the query
\* manager merges it publishes: QueryManager::resultsReady -> Frontend::setModel.
ResultArrives(p) ==
    /\ pc[p] = "exec"
    /\ servicing[p] = 0
    /\ \E r \in qm[p].flying, last \in BOOLEAN :
          /\ qm' = [qm EXCEPT ![p] = ResultArrived(@, r, last)]
          /\ feModel' = IF Accepts(qm[p], r)
                        THEN [feModel EXCEPT ![p] = Published(qm'[p])]
                        ELSE feModel
    /\ UNCHANGED <<procVars, srvVars, connVars, feVars, fileVars, storeVars, runVars, envVars, wiring>>

\* The handler installed for SIGINT, SIGTERM, SIGHUP and SIGPIPE calls
\* QMetaObject::invokeMethod(qApp, "quit", Qt::QueuedConnection), which
\* allocates the event and locks the event queue of the thread the signal
\* interrupted; that is no async-signal-safe call, so it either posts the
\* event or never returns.
SignalOutcomes == {"queued", "deadlock"}

\* One of the four signals is delivered to an instance whose handlers are
\* installed.
Signal(p) ==
    /\ pc[p] = "exec"
    /\ ~quitQueued[p]
    /\ \E o \in SignalOutcomes :
          IF o = "queued"
          THEN /\ quitQueued' = [quitQueued EXCEPT ![p] = TRUE]
               /\ UNCHANGED pc
          ELSE /\ pc' = [pc EXCEPT ![p] = "hung"]
               /\ UNCHANGED quitQueued
    /\ UNCHANGED <<args, exitKind, log, ops, srvVars, connVars, feVars, fileVars, storeVars,
                   runningFile, envVars, qmVars, wiring>>

\* The event loop delivers the queued call: QApplication::quit, app->exec()
\* returns.
QueuedQuit(p) ==
    /\ pc[p] = "exec"
    /\ servicing[p] = 0
    /\ quitQueued[p]
    /\ quitQueued' = [quitQueued EXCEPT ![p] = FALSE]
    /\ pc' = [pc EXCEPT ![p] = "finalize"]
    /\ UNCHANGED <<args, exitKind, log, ops, srvVars, connVars, feVars, fileVars, storeVars,
                   runningFile, envVars, qmVars, wiring>>

\* quit by the tray menu's quit action: app->exec() returns.
Quit(p) ==
    /\ pc[p] = "exec"
    /\ servicing[p] = 0
    /\ quitQueued' = [quitQueued EXCEPT ![p] = FALSE]
    /\ pc' = [pc EXCEPT ![p] = "finalize"]
    /\ UNCHANGED <<args, exitKind, log, ops, srvVars, connVars, feVars, fileVars, storeVars,
                   runningFile, envVars, qmVars, wiring>>

\* Finalize: delete the components, localServer->close() (which removes the
\* file at the server's path if it was listening), remove the running
\* indicator, return.
Finalize(p) ==
    /\ pc[p] = "finalize"
    /\ fmExists' = [fmExists EXCEPT ![p] = FALSE]
    /\ visible' = [visible EXCEPT ![p] = FALSE]
    /\ sockFile' = IF listening[p] THEN 0 ELSE sockFile
    /\ listening' = [listening EXCEPT ![p] = FALSE]
    /\ pending' = [pending EXCEPT ![p] = <<>>]
    /\ serverClosed' = ConnsClosedBy(p)
    /\ pc' = [pc EXCEPT ![p] = "done"]
    /\ exitKind' = [exitKind EXCEPT ![p] = "return"]
    /\ steps' = Stepped(p, <<"delete_components", "close_server", "remove_indicator">>)
    /\ runningFile' = FALSE
    /\ qm' = [qm EXCEPT ![p] = IdleQm]
    /\ feModel' = [feModel EXCEPT ![p] = NoModel]
    /\ wiring' = [wiring EXCEPT ![p] = NoWiring]
    /\ UNCHANGED <<args, log, ops, handler, servicing, connTo, wire, written, reply, rcvd,
                   fired, clientClosed, fileVars, store, quitQueued, envVars>>

\* Unclean shutdown of a running instance (SIGKILL, power loss) while it
\* waits in one of its event loops.
Kill(p) ==
    /\ pc[p] \in LoopPcs
    /\ pc' = [pc EXCEPT ![p] = "done"]
    /\ exitKind' = [exitKind EXCEPT ![p] = "killed"]
    /\ ProcessGone(p)
    /\ UNCHANGED <<args, log, ops, rcvd, fileVars, storeVars, runVars, envVars>>

----
\* newConnection is emitted while an event loop of the instance runs;
\* dispatchMessage takes the next pending connection and blocks in
\* socket->waitForReadyRead(500) on the thread that runs the event loop.
DispatchBegin(p) ==
    /\ pc[p] \in LoopPcs
    /\ handler[p]
    /\ servicing[p] = 0
    /\ pending[p] # <<>>
    /\ servicing' = [servicing EXCEPT ![p] = Head(pending[p])]
    /\ pending' = [pending EXCEPT ![p] = Tail(@)]
    /\ UNCHANGED <<procVars, sockFile, listening, handler, connVars, feVars, fileVars, storeVars, runVars, envVars, qmVars, wiring>>

Commands == {Show, Hide, Toggle}

\* The front-end call dispatchMessage makes for a message, and its reply.
ActionOf(msg) ==
    IF msg = Show THEN "setVisible(true)"
    ELSE IF msg = Hide THEN "setVisible(false)"
    ELSE IF msg = Toggle THEN "toggleVisibility"
    ELSE "none"

AckOf(msg) ==
    IF msg = Show THEN AckVisible
    ELSE IF msg = Hide THEN AckInvisible
    ELSE IF msg = Toggle THEN AckToggled
    ELSE AckNotSupported

VisibleAfter(msg, v) ==
    IF msg = Show THEN TRUE
    ELSE IF msg = Hide THEN FALSE
    ELSE IF msg = Toggle THEN ~v
    ELSE v

\* Outcomes of frontendManager->currentFrontend() through a null pointer.
NullDerefOutcomes == {"crash", "no_effect"}

BytesAvailable_Always(c) == TRUE

\* if (socket->bytesAvailable()) after the bounded wait
BytesAvailable(c) == wire[c] # <<>>

\* socket->write(ack); flush: the bytes reach the peer unless it has closed.
Replied(c, ack) ==
    /\ written' = [written EXCEPT ![c] = ack]
    /\ reply' = [reply EXCEPT ![c] = IF clientClosed[c] THEN @ ELSE ack]

\* The read wait of dispatchMessage in milliseconds.
ReadWaitMs == 500

WaitForReadyRead_NoTimeout(c, msecs) == wire[c] # <<>> \/ clientClosed[c]

\* QLocalSocket::waitForReadyRead(msecs) returns when bytes have arrived,
\* when the peer has disconnected, or when msecs have passed; a negative
\* msecs means no timeout.
WaitForReadyRead(c, msecs) == wire[c] # <<>> \/ clientClosed[c] \/ msecs >= 0

\* The wait returns: read, act, acknowledge, flush, close, deleteLater.
DispatchFinish(p) ==
    /\ servicing[p] # 0
    /\ WaitForReadyRead(servicing[p], ReadWaitMs)
    /\ LET c   == servicing[p]
           msg == FromLocal8Bit(wire[c])
       IN IF ~BytesAvailable(c)
          THEN \* no bytes available: timeout or peer closed
               /\ serverClosed' = [serverClosed EXCEPT ![c] = TRUE]
               /\ servicing' = [servicing EXCEPT ![p] = 0]
               /\ UNCHANGED <<procVars, sockFile, listening, handler, pending, connTo,
                              wire, written, reply, rcvd, fired, clientClosed, feVars,
                              fileVars, storeVars, runVars, envVars, qmVars, wiring>>
          ELSE IF msg \in Commands /\ ~fmExists[p]
          THEN \* frontendManager is still null
               \E outcome \in NullDerefOutcomes :
                 IF outcome = "crash"
                 THEN /\ rcvd' = [rcvd EXCEPT ![c] = msg]
                      /\ pc' = [pc EXCEPT ![p] = "done"]
                      /\ exitKind' = [exitKind EXCEPT ![p] = "segv"]
                      /\ ProcessGone(p)
                      /\ UNCHANGED <<args, log, ops, fileVars, storeVars, runVars, envVars>>
                 ELSE /\ rcvd' = [rcvd EXCEPT ![c] = msg]
                      /\ Replied(c, AckOf(msg))
                      /\ serverClosed' = [serverClosed EXCEPT ![c] = TRUE]
                      /\ servicing' = [servicing EXCEPT ![p] = 0]
                      /\ UNCHANGED <<procVars, sockFile, listening, handler, pending,
                                     connTo, wire, fired, clientClosed, feVars, fileVars, storeVars, runVars, envVars, qmVars, wiring>>
          ELSE /\ rcvd' = [rcvd EXCEPT ![c] = msg]
               /\ fired' = [fired EXCEPT ![c] =
                               IF msg \in Commands THEN Append(@, ActionOf(msg)) ELSE @]
               /\ visible' = [visible EXCEPT ![p] = VisibleAfter(msg, @)]
               /\ qm' = [qm EXCEPT ![p] = AfterVisibility(p, VisibleAfter(msg, visible[p]))]
               /\ Replied(c, AckOf(msg))
               /\ serverClosed' = [serverClosed EXCEPT ![c] = TRUE]
               /\ servicing' = [servicing EXCEPT ![p] = 0]
               /\ UNCHANGED <<procVars, sockFile, listening, handler, pending, connTo,
                              wire, clientClosed, fmExists, fileVars, storeVars, runVars, envVars,
                              feModel, wiring>>

----
Next ==
    \E p \in Procs :
        \/ Connect(p)
        \/ ClientWrite(p)
        \/ ClientWait(p)
        \/ ClientInfo(p)
        \/ RemoveServer(p)
        \/ Listen(p)
        \/ Paths(p)
        \/ VersionDialogClose(p)
        \/ Database(p)
        \/ Components(p)
        \/ NoteDialogClose(p)
        \/ Hotkey(p)
        \/ HotkeyDialogClose(p)
        \/ Misc(p)
        \/ HotkeyPressed(p)
        \/ Quit(p)
        \/ Finalize(p)
        \/ Kill(p)
        \/ DispatchBegin(p)
        \/ DispatchFinish(p)

Spec == Init /\ [][Next]_vars

\* Start-up and orderly shutdown of instances in the environment that
\* injects failures.
StartupNext ==
    \E p \in Procs :
        \/ Connect(p)
        \/ RemoveServer(p)
        \/ Listen(p)
        \/ Paths(p)
        \/ VersionDialogClose(p)
        \/ Database(p)
        \/ Components(p)
        \/ NoteDialogClose(p)
        \/ Hotkey(p)
        \/ HotkeyDialogClose(p)
        \/ Misc(p)
        \/ Quit(p)
        \/ Finalize(p)

StartupSpec == FaultyInit /\ [][StartupNext]_vars

\* The program in an environment that also sends the four unix signals.
SignalNext ==
    \/ Next
    \/ \E p \in Procs : Signal(p)
    \/ \E p \in Procs : QueuedQuit(p)

SignalSpec == PlainInit /\ [][SignalNext]_vars

\* Instances run one after the other, ended in an orderly way or killed,
\* with a user who shows and hides the front-end and types, and providers
\* that answer.
SessionInit == Start(0, {}, {}, {<<"absent", FALSE>>}, FALSE)

SessionNext ==
    \/ StartupNext
    \/ \E p \in Procs : Kill(p)
    \/ \E p \in Procs : HotkeyPressed(p)
    \/ \E p \in Procs : ShownAgain(p)
    \/ \E p \in Procs : InputChanged(p)
    \/ \E p \in Procs : ResultArrives(p)

SessionSpec == SessionInit /\ [][SessionNext]_vars

\* Instances run one after the other with a user who changes the
\* front-end, presses the hotkey and clicks the tray icon.
WiringNext ==
    \/ StartupNext
    \/ \E p \in Procs : HotkeyPressed(p)
    \/ \E p \in Procs : FrontendChanged(p)
    \/ \E p \in Procs : TrayActivated(p)

WiringSpec == SessionInit /\ [][WiringNext]_vars

\* The client steps run as soon as the process is scheduled, and the bounded
\* wait returns after its timeout at the latest.
FairSpec ==
    /\ PlainInit /\ [][Next]_vars
    /\ \A p \in Procs : WF_vars(ClientWrite(p)) /\ WF_vars(ClientWait(p))

\* A command, an unknown word and the empty token are tried on a fresh
\* profile; nothing fails.
DispatchInit == Start(0, {Show, <<233>>, <<>>}, {}, {<<"absent", FALSE>>}, TRUE)

\* The thread blocked in dispatchMessage goes on when its wait returns.
DispatchSpec ==
    /\ DispatchInit /\ [][Next]_vars
    /\ \A p \in Procs : WF_vars(DispatchFinish(p))

----
(***************************************************************************)
(* Properties of the single-instance gateway.                              *)
(***************************************************************************)

IsPrefix(a, b) == Len(a) <= Len(b) /\ \A i \in 1..Len(a) : a[i] = b[i]

\* The invocation carries a command token: exactly one positional argument.
HasCommand(p) == Len(args[p]) = 1

Connected(p) == Has(ops[p], "connect_ok")

ConnectFailed(p) == Has(ops[p], "connect_fail")

\* C1: across any interleaving of invocations started without a command
\* token, at most one running instance holds a bound, listening rendezvous
\* endpoint at any time.
C1_AtMostOneEndpoint ==
    Cardinality({p \in Procs : listening[p]}) <= 1

\* C2: an invocation whose connect succeeded and which carries exactly one
\* token writes the token to the socket as it is (the bytes decode to the
\* token, nothing added), then waits, then prints the reply that arrived,
\* then closes and exits with success; it never removes or binds the
\* endpoint and never becomes the running instance.
C2_ClientSendsAndExits ==
    \A p \in Procs :
        Connected(p) /\ HasCommand(p) =>
            /\ \/ IsPrefix(ops[p], <<"connect_ok", "write", "wait", "print", "close", "exit_success">>)
               \/ IsPrefix(ops[p], <<"connect_ok", "write", "wait", "close", "exit_success">>)
            /\ Has(ops[p], "write") =>
                  /\ FromLocal8Bit(wire[p]) = args[p][1]
                  /\ Len(wire[p]) >= Len(args[p][1])
            /\ Has(ops[p], "print") => log[p] = << <<"INFO", reply[p]>> >> /\ reply[p] # NoReply
            /\ pc[p] = "done" =>
                  /\ exitKind[p] = "success"
                  /\ Has(ops[p], "exit_success")
                  /\ reply[p] # NoReply => Has(ops[p], "print")
            /\ pc[p] \in {"c_write", "c_wait", "done"}
            /\ ~listening[p] /\ ~handler[p] /\ sockFile # p
            /\ ~Has(ops[p], "remove")

C2_Witness ==
    \E p \in Procs :
        /\ pc[p] = "done"
        /\ HasCommand(p)
        /\ ops[p] = <<"connect_ok", "write", "wait", "print", "close", "exit_success">>

\* C3: whenever an invocation that carries a command token finds a running
\* instance and exits with status zero, it has received an acknowledgement
\* before exiting.
C3_ExitZeroOnlyAfterReply ==
    \A p \in Procs :
        Connected(p) /\ HasCommand(p) /\ exitKind[p] = "success" =>
            Has(ops[p], "print") /\ reply[p] # NoReply

\* The running instance has finished with connection c.
Serviced(c) == connTo[c] # 0 /\ rcvd[c] # NoMsg /\ servicing[connTo[c]] # c

\* C4: for every connection in which text was received: show, hide and
\* toggle fire exactly the one matching visibility action and are answered
\* with the matching acknowledgement; any other text fires nothing and is
\* answered with the not-supported message.
C4_DispatchTable ==
    \A c \in Procs :
        Serviced(c) =>
            IF rcvd[c] = Show
            THEN fired[c] = <<"setVisible(true)">> /\ written[c] = "Application set visible."
            ELSE IF rcvd[c] = Hide
            THEN fired[c] = <<"setVisible(false)">> /\ written[c] = "Application set invisible."
            ELSE IF rcvd[c] = Toggle
            THEN fired[c] = <<"toggleVisibility">> /\ written[c] = "Visibility toggled."
            ELSE fired[c] = <<>> /\ written[c] = "Command not supported."

\* A connected invocation that carries no command token.
NoTokenClient(c) == Connected(c) /\ ~HasCommand(c)

\* What the no-token client does and what its connection causes.
C5_ClientSide(c) ==
    /\ wire[c] = <<>>
    /\ rcvd[c] = NoMsg /\ fired[c] = <<>> /\ written[c] = NoReply
    /\ ~Has(ops[c], "write") /\ ~Has(ops[c], "wait")
    /\ pc[c] \in {"c_info", "done"}
    /\ pc[c] = "done" =>
          /\ ops[c] = <<"connect_ok", "info_running", "close", "exit_success">>
          /\ log[c] = << <<"INFO", InfoRunning>> >>
          /\ exitKind[c] = "success"

\* A step of the no-token client, or the step in which the instance finishes
\* servicing its connection, leaves the instance as it was.
C5_InstanceUntouched ==
    \A c \in Procs : \A srv \in Procs :
        /\ connTo'[c] = srv
        /\ Len(args'[c]) # 1
        /\ \/ pc'[c] # pc[c]
           \/ servicing[srv] = c /\ servicing'[srv] # c /\ exitKind'[srv] # "killed"
        => /\ visible' = visible
           /\ fmExists' = fmExists
           /\ listening' = listening
           /\ sockFile' = sockFile
           /\ pc'[srv] = pc[srv]
           /\ exitKind'[srv] = exitKind[srv]

\* C5: an invocation whose connect succeeds and which carries no command
\* token prints the another-instance message and exits at once without
\* waiting; the running instance is unaffected: no visibility change, its
\* endpoint stays bound and it keeps listening.
C5_NoTokenClientLeavesInstance ==
    /\ [](\A c \in Procs : NoTokenClient(c) => C5_ClientSide(c))
    /\ [][C5_InstanceUntouched]_vars

C5_Witness ==
    \E c \in Procs : \E srv \in Procs :
        /\ NoTokenClient(c) /\ pc[c] = "done"
        /\ connTo[c] = srv /\ serverClosed[c]
        /\ pc[srv] = "exec" /\ listening[srv] /\ sockFile = srv

\* C6: an invocation whose connect fails and which carries a command token
\* reports that no instance is running and exits with failure status; it
\* neither removes nor binds the endpoint and does not become the running
\* instance.
C6_CommandWithoutInstanceFails ==
    \A p \in Procs :
        ConnectFailed(p) /\ HasCommand(p) =>
            /\ ops[p] = <<"connect_fail", "exit_failure">>
            /\ log[p] = << <<"INFO", InfoNoRunning>> >>
            /\ pc[p] = "done" /\ exitKind[p] = "failure"
            /\ ~listening[p] /\ ~handler[p] /\ sockFile # p

\* The command failed while the stale endpoint of a killed instance was on
\* the path, and the endpoint is still there.
C6_Witness ==
    \E p \in Procs : \E q \in Procs :
        /\ HasCommand(p) /\ exitKind[p] = "failure"
        /\ sockFile = q /\ exitKind[q] = "killed"

\* C7: an invocation whose connect fails and which carries no command token
\* removes the endpoint, then binds, then registers the handler, and an
\* endpoint left on the path by an instance that is gone never makes its
\* bind fail.
C7_StaleEndpointNeverBlocksBind ==
    [][\A p \in Procs :
          pc[p] = "listen" /\ pc'[p] # "listen" =>
              /\ \/ ops'[p] = <<"connect_fail", "remove", "listen_ok", "register">>
                 \/ ops'[p] = <<"connect_fail", "remove", "listen_fail", "register">>
              /\ (sockFile # 0 /\ ~listening[sockFile]) => listening'[p]]_vars

\* C8: while a connection is being serviced (dispatchMessage waits for
\* readable bytes), the control thread of the instance can still process a
\* front-end event.
C8_ControlThreadNeverBlocked ==
    \A p \in Procs :
        pc[p] = "exec" /\ servicing[p] # 0 => ENABLED HotkeyPressed(p)

\* The client sent its command and the bounded wait ended without a reply.
TimedOut(p) ==
    /\ Connected(p) /\ HasCommand(p) /\ pc[p] = "done"
    /\ ~Has(ops[p], "print")

\* The step in which the bounded wait of client p ends.
WaitEnds(p) == pc[p] = "c_wait" /\ pc'[p] # "c_wait"

\* C9: a client that sent a command and gets no reply within the bounded
\* wait prints nothing, closes its socket and exits normally; the end of its
\* wait changes nothing in any other process (no instance crashes or blocks
\* on it); and the client always terminates.
C9_TimeoutEndsClient ==
    /\ [](\A p \in Procs :
            TimedOut(p) =>
                /\ log[p] = <<>>
                /\ clientClosed[p]
                /\ exitKind[p] = "success"
                /\ ops[p] = <<"connect_ok", "write", "wait", "close", "exit_success">>)
    /\ [][\A p \in Procs :
            WaitEnds(p) =>
                /\ pc'[p] = "done" /\ exitKind'[p] = "success"
                /\ \A q \in Procs \ {p} : pc'[q] = pc[q] /\ exitKind'[q] = exitKind[q]
                /\ UNCHANGED <<srvVars, feVars>>]_vars
    /\ \A p \in Procs : (pc[p] \in {"c_write", "c_wait"}) ~> (pc[p] = "done")

\* The instance the client talks to is alive and has not answered.
C9_Witness ==
    \E p \in Procs :
        /\ TimedOut(p)
        /\ args[p] = <<Show>>
        /\ pc[connTo[p]] = "exec"
        /\ written[p] = NoReply

BindFailed(p) == Has(ops[p], "listen_fail")

\* C10: a failed bind is logged as a warning and nothing more: the
\* invocation goes on through the start-up (paths, store, components,
\* hotkey, event loop) as it would with a bound endpoint, only without
\* inter-process control; if it ends fatally, the fatal message is one of
\* the later start-up steps, never the bind.
C10_BindFailureIsOnlyAWarning ==
    \A p \in Procs :
        BindFailed(p) =>
            /\ Has(log[p], <<"WARN", WarnNoIpc>>)
            /\ ops[p] = <<"connect_fail", "remove", "listen_fail", "register">>
            /\ ~listening[p] /\ pending[p] = <<>> /\ servicing[p] = 0
            /\ pc[p] \notin {"listen", "remove"} \cup ClientPcs
            /\ exitKind[p] = "fatal" =>
                  log[p][Len(log[p])] \in {<<"FATAL", FatalDir>>, <<"FATAL", FatalDb>>,
                                           <<"FATAL", FatalHotkey>>}
            /\ pc[p] = "paths" => ENABLED Paths(p)
            /\ pc[p] = "db" => ENABLED Database(p)
            /\ pc[p] = "components" => ENABLED Components(p)
            /\ pc[p] = "hotkey" => ENABLED Hotkey(p)
            /\ pc[p] = "misc" => ENABLED Misc(p)

\* The bind failed and the instance is in its event loop with its components.
C10_Witness ==
    \E p \in Procs :
        BindFailed(p) /\ pc[p] = "exec" /\ fmExists[p] /\ exitKind[p] = "none"

----
(***************************************************************************)
(* Properties of the usage store and of the start-up sequence.             *)
(***************************************************************************)
Last(seq) == seq[Len(seq)]

\* The database could not be initialized up to db.open().
StoreUnusable(p) ==
    \/ Has(steps[p], "addDatabase_invalid")
    \/ Has(steps[p], "hasFeature_fail")
    \/ Has(steps[p], "open_fail")

StoreOpenFatals == {FatalNoSqlite, FatalNoTransactions, FatalDb}

\* C11: when the driver is not available, lacks transactions, or the
\* database cannot be opened, the invocation has ended with exit code 1 and a
\* fatal message, it never created a core component and never entered the
\* event loop; and whoever creates components or enters the event loop has
\* opened the database before.
C11_StoreFailureIsFatal ==
    \A p \in Procs :
        /\ StoreUnusable(p) =>
              /\ pc[p] = "done" /\ exitKind[p] = "fatal"
              /\ log[p] # <<>> /\ Last(log[p])[1] = "FATAL"
              /\ Last(log[p])[2] \in StoreOpenFatals
              /\ ~Has(steps[p], "transaction")
              /\ ~Has(steps[p], "components") /\ ~fmExists[p]
              /\ ~Has(steps[p], "exec")
        /\ Has(steps[p], "components") \/ Has(steps[p], "exec") \/ fmExists[p] =>
              Has(steps[p], "open") /\ ~StoreUnusable(p)

\* Two invocations have ended at a store they could not use: one at
\* db.open(), the other at the driver.
C11_Witness ==
    \E p \in Procs : \E q \in Procs :
        /\ Has(steps[p], "open_fail") /\ exitKind[p] = "fatal"
        /\ Has(steps[q], "addDatabase_invalid") /\ exitKind[q] = "fatal"

\* Invocation p completes the database initialization in this step.
InitializesStore(p) == pc[p] = "db" /\ pc'[p] = "components"

C12_Step ==
    /\ {a \in store.usages : a <= UsageRetentionDays} \subseteq store'.usages
    /\ {a \in store.runtimes : a <= RuntimeRetentionDays} \subseteq store'.runtimes
    /\ store'.usages \subseteq store.usages
    /\ store'.runtimes \subseteq store.runtimes
    /\ \A p \in Procs : InitializesStore(p) =>
          /\ Has(steps'[p], "prune_usages") =>
                /\ store'.usages = {a \in store.usages : a <= UsageRetentionDays}
                /\ UsageRetentionDays + 1 \notin store'.usages
                /\ UsageRetentionDays - 1 \in store.usages =>
                      UsageRetentionDays - 1 \in store'.usages
          /\ Has(steps'[p], "prune_runtimes") =>
                /\ store'.runtimes = {a \in store.runtimes : a <= RuntimeRetentionDays}
                /\ RuntimeRetentionDays + 1 \notin store'.runtimes
                /\ RuntimeRetentionDays - 1 \in store.runtimes =>
                      RuntimeRetentionDays - 1 \in store'.runtimes

\* C12: the delete statements run when the store is opened remove exactly
\* the usages rows older than 90 days and the runtimes rows older than 7
\* days (a row of 91 resp. 8 days goes, a row of 89 resp. 6 days stays), and
\* no step ever deletes a row inside its window or adds a row.
C12_PruneRemovesExactlyOldRows == [][C12_Step]_vars

\* Both delete statements ran on a store that held rows of 89, 90, 91 and of
\* 6, 7, 8 days: the rows of 91 and of 8 days are gone, the others are there.
C12_Witness ==
    \E p \in Procs :
        /\ Has(steps[p], "prune_usages") /\ Has(steps[p], "prune_runtimes")
        /\ store.usages = UsageAges \ {UsageRetentionDays + 1}
        /\ store.runtimes = RuntimeAges \ {RuntimeRetentionDays + 1}

Before(seq, x, y) == \E j \in DOMAIN seq : seq[j] = y /\ \E i \in 1..(j - 1) : seq[i] = x

PruneFailed(p) == Has(steps[p], "prune_usages_fail") \/ Has(steps[p], "prune_runtimes_fail")

DbFatals == {FatalNoSqlite, FatalNoTransactions, FatalDb, FatalUsagesTable, FatalRuntimesTable}

\* C13: a delete statement of the cleanup that fails is answered with a
\* warning only: after a failed usages delete the runtimes delete still
\* runs, the transaction is committed, the invocation does not end at the
\* database, and it goes on to create the components.
C13_PruneFailureIsOnlyAWarning ==
    \A p \in Procs :
        /\ Has(steps[p], "prune_usages_fail") =>
              /\ Has(log[p], <<"WARN", WarnPruneUsages>>)
              /\ \/ Before(steps[p], "prune_usages_fail", "prune_runtimes")
                 \/ Before(steps[p], "prune_usages_fail", "prune_runtimes_fail")
        /\ Has(steps[p], "prune_runtimes_fail") =>
              Has(log[p], <<"WARN", WarnPruneRuntimes>>)
        /\ PruneFailed(p) =>
              /\ Has(steps[p], "commit")
              /\ ~Before(steps[p], "commit", "prune_usages_fail")
              /\ ~Before(steps[p], "commit", "prune_runtimes_fail")
              /\ \A i \in DOMAIN log[p] : log[p][i][2] \notin DbFatals
              /\ pc[p] # "db"
              /\ pc[p] = "components" => ENABLED Components(p)
              /\ pc[p] \in {"hotkey", "misc", "exec", "finalize"} => Has(steps[p], "components")

\* An instance whose usages delete failed runs its event loop with its
\* components; the old usages rows are still there, the old runtimes rows
\* are gone.
C13_Witness ==
    \E p \in Procs :
        /\ Has(steps[p], "prune_usages_fail") /\ Has(steps[p], "prune_runtimes")
        /\ pc[p] = "exec" /\ fmExists[p]
        /\ UsageRetentionDays + 1 \in store.usages
        /\ RuntimeRetentionDays + 1 \notin store.runtimes

\* The statements of a database initialization in which nothing fails.
FullInit == DbSteps("ok") \o PruneSteps(TRUE, TRUE)

Count(seq, x) == Cardinality({i \in DOMAIN seq : seq[i] = x})

TableCreationFailed(p) ==
    Has(steps[p], "create_usages_fail") \/ Has(steps[p], "create_runtimes_fail")

\* The rows of a store that are inside their retention window.
InWindow(s) == [usages   |-> {a \in s.usages : a <= UsageRetentionDays},
                runtimes |-> {a \in s.runtimes : a <= RuntimeRetentionDays}]

\* The statements of the database initialization, done or failed.
Statements == {"create_usages", "create_runtimes", "prune_usages", "prune_runtimes",
               "prune_usages_fail", "prune_runtimes_fail",
               "create_usages_fail", "create_runtimes_fail"}

C14_State ==
    /\ LET once == Committed(store, FullInit)
       IN  Committed(once, FullInit) = once
    /\ \A p \in Procs :
          /\ Count(steps[p], "transaction") <= 1
          /\ Count(steps[p], "commit") <= 1
          /\ \A j \in DOMAIN steps[p] :
                steps[p][j] \in Statements =>
                    /\ \E i \in 1..(j - 1) : steps[p][i] = "transaction"
                    /\ \A i \in 1..(j - 1) : steps[p][i] # "commit"
          /\ Has(steps[p], "commit") =>
                /\ Before(steps[p], "create_runtimes", "commit")
                /\ {"usages", "runtimes"} \subseteq store.tables
          /\ TableCreationFailed(p) =>
                /\ ~Has(steps[p], "commit")
                /\ pc[p] = "done" /\ exitKind[p] = "fatal"
                /\ Last(log[p])[2] \in {FatalUsagesTable, FatalRuntimesTable}

C14_Step ==
    \A p \in Procs :
        /\ InitializesStore(p) =>
              /\ store'.tables = store.tables \cup {"usages", "runtimes"}
              /\ InWindow(store') = InWindow(store)
              /\ store = Committed(store, FullInit) => store' = store
        /\ pc[p] = "db" /\ TableCreationFailed(p)' => store' = store

\* C14: creating the schema twice is the same as creating it once: a
\* database initialization on a store that has the tables leaves the tables
\* and every row inside its window as they are, and leaves an initialized
\* store unchanged; table creation and cleanup lie between the one
\* db.transaction() and the one db.commit() of the invocation; a table
\* creation that fails ends the invocation fatally without a commit and
\* with the store as it was.
C14_SchemaCreationIsIdempotent == [](C14_State) /\ [][C14_Step]_vars

\* Two invocations have initialized the same store one after the other:
\* the second initialization found both tables and no old row.
C14_Witness ==
    \E p \in Procs : \E q \in Procs :
        /\ p < q
        /\ Has(steps[p], "commit") /\ Has(steps[q], "commit")
        /\ store = Committed(UsedStore, FullInit)

\* The failures the claim lists as logged only, by what the invocation
\* printed.
SoftFailures == {WarnNoIpc, CritVersionRead, CritVersionWrite, WarnIndicator}

EndedFatally(p) == pc[p] = "done" /\ exitKind[p] = "fatal"

\* The next start-up step of the invocation can be taken.
StartupContinues(p) ==
    /\ pc[p] = "paths" => ENABLED Paths(p)
    /\ pc[p] = "version_dialog" /\ servicing[p] = 0 => ENABLED VersionDialogClose(p)
    /\ pc[p] = "db" => ENABLED Database(p)
    /\ pc[p] = "components" => ENABLED Components(p)
    /\ pc[p] = "hotkey" => ENABLED Hotkey(p)
    /\ pc[p] = "hotkey_dialog" /\ servicing[p] = 0 => ENABLED HotkeyDialogClose(p)
    /\ pc[p] = "misc" => ENABLED Misc(p)

\* C15 as stated: an invocation ends fatally during start-up only at the
\* store (driver, transactions, open, table creation); a directory that
\* cannot be created and a hotkey that cannot be registered are logged and
\* start-up continues.
C15_OnlyStoreFailuresEndStartup ==
    \A p \in Procs : EndedFatally(p) => Last(log[p])[2] \in DbFatals

\* C15, amended: an invocation ends fatally during start-up only at the
\* store, at a directory that cannot be created, or at a hotkey given on the
\* command line that cannot be registered; a failed bind, a version file
\* that cannot be read or written, a running indicator that cannot be
\* created and a hotkey from the settings that cannot be registered are
\* reported and start-up continues.
C15_FatalStartupFailures ==
    \A p \in Procs :
        /\ EndedFatally(p) =>
              /\ Last(log[p])[1] = "FATAL"
              /\ Last(log[p])[2] \in DbFatals \cup {FatalDir, FatalHotkey}
              /\ Last(log[p])[2] = FatalDir <=> Last(steps[p]) = "mkpath_fail"
              /\ Last(log[p])[2] = FatalHotkey <=> Last(steps[p]) = "hotkey_fail"
              /\ ~Has(steps[p], "exec")
        /\ \A i \in DOMAIN log[p] :
              log[p][i][2] \in SoftFailures \cup {WarnPruneUsages, WarnPruneRuntimes} =>
                  log[p][i][1] \in {"WARN", "CRIT"}
        /\ StartupContinues(p)
        /\ Has(steps[p], "mkpath_fail") \/ Has(steps[p], "hotkey_fail") => EndedFatally(p)

\* One invocation ended at a directory it could not create; another could
\* not write the version file and runs its event loop.
C15_Witness ==
    \E p \in Procs : \E q \in Procs :
        /\ EndedFatally(p) /\ Last(log[p])[2] = FatalDir
        /\ Has(log[q], <<"CRIT", CritVersionWrite>>) /\ pc[q] = "exec"

(***************************************************************************)
(* Properties of sessions, queries and the results shown                   *)
(***************************************************************************)
\* The results of a query that is neither cancelled nor replaced.
Current(p) == {r \in qm[p].flying : ~r[2] /\ r[1] = qm[p].seq}

\* A ranked sequence holds results of the query numbered n only.
OnlyTagged(tags, n) == tags \subseteq {n}

C16_State ==
    \A p \in Procs :
        /\ OnlyTagged(feModel[p].tags, feModel[p].at)
        /\ OnlyTagged(qm[p].ranked, qm[p].seq)

C16_Step ==
    \A p \in Procs :
        (feModel'[p] # feModel[p] /\ feModel'[p] # NoModel) =>
            /\ qm[p].state = "Querying"
            /\ Current(p) # {}
            /\ feModel'[p].at = qm[p].seq
            /\ qm'[p].seq = qm[p].seq

\* C16: within a session, whatever queries are submitted, every ranked
\* sequence published to the front-end holds only results tagged with the
\* sequence number assigned last, and a publication happens only when a
\* result of the query that is current arrives: a result arriving late for a
\* superseded query is never published.
C16_NoStaleResultsPublished == [](C16_State) /\ [][C16_Step]_vars

\* The second query of a session was published after the first one was
\* superseded and its late result has arrived.
C16_Witness ==
    \E p \in Procs :
        /\ qm[p].seq = 2
        /\ feModel[p] = [at |-> 2, tags |-> {2}]
        /\ \A r \in qm[p].flying : r[1] # 1

\* The front-end of p is hidden by this step.
Hides(p) == visible[p] /\ ~visible'[p]

\* Every result still under way belongs to a cancelled query.
AllCancelled(p) == \A r \in qm[p].flying : r[2]

C17_State ==
    \A p \in Procs :
        qm[p].state = "Idle" => AllCancelled(p) /\ qm[p].ranked = {}

C17_Step ==
    \A p \in Procs :
        /\ (Hides(p) /\ qm[p].state = "Querying") =>
              /\ qm'[p].state = "Idle"
              /\ feModel'[p] \in {feModel[p], NoModel}
        /\ (AllCancelled(p) /\ qm'[p].seq = qm[p].seq) =>
              feModel'[p] \in {feModel[p], NoModel}

\* C17: hiding the front-end while a query is in flight takes the query
\* manager to Idle in that step; in Idle every result still under way is
\* flagged as cancelled, and as long as only cancelled results are under
\* way, whatever arrives, nothing is delivered to the front-end.
C17_CloseCancelsQuery == [](C17_State) /\ [][C17_Step]_vars

\* The session was closed while its first query was in flight: the query
\* manager is Idle, results of the cancelled query are still under way and
\* the front-end has received nothing.
C17_Witness ==
    \E p \in Procs :
        /\ pc[p] = "exec"
        /\ qm[p].state = "Idle"
        /\ <<1, TRUE>> \in qm[p].flying
        /\ feModel[p] = NoModel

\* The session of p is active.
Active(p) == qm[p].state # "Idle"

\* The query manager of p is as before but for the error it reported.
Untouched(p) == [qm'[p] EXCEPT !.error = qm[p].error] = qm[p]

C18_State ==
    \A p \in Procs :
        /\ qm[p].sessions <= 1
        /\ Active(p) <=> qm[p].sessions = 1

C18_Step ==
    \A p \in Procs :
        /\ (qm'[p].error = "InvalidStateError" /\ qm[p].error # "InvalidStateError") =>
              Untouched(p) /\ feModel'[p] = feModel[p]
        /\ (Active(p) /\ visible[p] /\ visible'[p]) =>
              /\ qm'[p].sessions = qm[p].sessions
              /\ qm'[p].seq >= qm[p].seq

\* C18: a request to open a session while one is active is answered with
\* InvalidStateError and leaves the query manager as it was: state,
\* sequence counter, ranked results and the queries in flight; a session
\* starts over only after the front-end was hidden, so that whatever events
\* occur, an instance has at most one session.
C18_OpenWhileActiveFails == [](C18_State) /\ [][C18_Step]_vars

\* A second widgetShown arrived while a query of the session was running:
\* the error is reported and the query is still the second one.
C18_Witness ==
    \E p \in Procs :
        /\ qm[p].error = "InvalidStateError"
        /\ qm[p].state = "Querying"
        /\ qm[p].seq = 2

(***************************************************************************)
(* Properties of the connections an instance services                      *)
(***************************************************************************)
\* dispatchMessage has taken connection c and has not returned.
InService(c) == \E p \in Procs : servicing[p] = c

\* The instance of p stops servicing a connection in this step.
ServiceEnds(p) == servicing[p] # 0 /\ servicing'[p] # servicing[p]

C19_State ==
    /\ \A c \in Procs : Len(fired[c]) <= 1
    /\ \A c \in Procs : InService(c) => ~serverClosed[c]
    /\ \A p \in Procs : servicing[p] # 0 => ENABLED DispatchFinish(p)

C19_Step ==
    \A p \in Procs :
        ServiceEnds(p) => servicing'[p] = 0 /\ serverClosed'[servicing[p]]

\* C19: a connection taken by dispatchMessage causes at most one front-end
\* action, the wait on it can always return, the step that ends its service
\* closes it, and it is eventually closed, whether the peer wrote a command,
\* other text or nothing: a silent peer cannot keep it open.
C19_ConnectionAlwaysClosed ==
    /\ [](C19_State)
    /\ [][C19_Step]_vars
    /\ \A c \in Procs : InService(c) ~> serverClosed[c]

\* The connection of a peer that wrote nothing and has not closed its socket
\* was serviced and closed by an instance that runs on.
C19_Witness ==
    \E c \in Procs :
        /\ connTo[c] # 0
        /\ pc[connTo[c]] \in LoopPcs
        /\ wire[c] = <<>> /\ ~clientClosed[c]
        /\ serverClosed[c]
        /\ rcvd[c] = NoMsg /\ written[c] = NoReply

(***************************************************************************)
(* Properties of the shutdown by a unix signal                             *)
(***************************************************************************)
\* A quit request is posted to the instance of p in this step.
QuitPosted(p) == ~quitQueued[p] /\ quitQueued'[p]

\* The posted quit request of p is taken from the event queue in this step.
QuitTaken(p) == quitQueued[p] /\ ~quitQueued'[p]

\* No instance is stuck in a signal handler.
C20_State == \A p \in Procs : pc[p] # "hung"

C20_Step ==
    \A p \in Procs :
        /\ QuitPosted(p) =>
              UNCHANGED <<procVars, srvVars, connVars, feVars, fileVars, storeVars,
                          runningFile, qmVars>>
        /\ QuitTaken(p) => pc'[p] \in {"finalize", "done"}
        /\ (pc[p] = "finalize" /\ pc'[p] = "done") =>
              /\ ~fmExists'[p] /\ ~listening'[p] /\ ~runningFile'
              /\ Last(steps'[p]) = "remove_indicator"

\* C20: a signal only posts a quit request and changes nothing else, the
\* instance goes on to take the request from its event queue (it is never
\* stuck in the handler), the event loop then ends, and finalization
\* deletes the components, closes the server and removes the running
\* indicator.
C20_SignalOnlyQueuesQuit ==
    /\ [](C20_State)
    /\ [][C20_Step]_vars

(***************************************************************************)
(* Properties of the front-end manager, the files and the wiring           *)
(***************************************************************************)
\* dispatchMessage reads a command from connection c in this step.
ReadsCommand(c) == rcvd[c] = NoMsg /\ rcvd'[c] \in Commands

\* C21: whenever dispatchMessage acts on show, hide or toggle, the
\* front-end manager of the instance exists, also when the client connected
\* while a start-up dialog ran its event loop.
C21_DispatchOnlyWithFrontendManager ==
    [][\A c \in Procs : ReadsCommand(c) => fmExists[connTo[c]]]_vars

\* The invocation of p ends as a client or as a failed command.
ClientOrFailedCommand(p) == Connected(p) \/ (ConnectFailed(p) /\ HasCommand(p))

\* What such an invocation does: socket operations and output only.
ClientOps == {"connect_ok", "write", "wait", "print", "info_running", "close",
              "exit_success", "connect_fail", "exit_failure"}

\* The endpoint, the usage store, the version file and the running
\* indicator.
persistent == <<sockFile, listening, store, versionFile, runningFile>>

\* The invocation of p takes a step.
StepOf(p) == pc'[p] # pc[p] \/ ops'[p] # ops[p]

C22_State ==
    \A p \in Procs :
        ClientOrFailedCommand(p) =>
            /\ \A i \in DOMAIN ops[p] : ops[p][i] \in ClientOps
            /\ steps[p] = <<>>
            /\ ~listening[p] /\ ~handler[p] /\ sockFile # p
            /\ pc[p] \in ClientPcs \cup {"done"}

C22_Step ==
    \A p \in Procs :
        (StepOf(p) /\ ClientOrFailedCommand(p)') => UNCHANGED persistent

\* C22: an invocation that connects, or whose connect fails while it
\* carries a command token, performs socket operations and output only:
\* none of its steps changes the endpoint, the usage store, the version
\* file or the running indicator, and it never binds or registers a handler.
C22_ClientsLeaveFilesAlone == [](C22_State) /\ [][C22_Step]_vars

\* A client has ended while the files show the traces of the instance it
\* talked to: the store is initialized and the endpoint of the instance is
\* on the path.
C22_Witness ==
    \E p \in Procs : \E q \in Procs :
        /\ pc[p] = "done" /\ Connected(p)
        /\ "usages" \in store.tables
        /\ sockFile = q /\ q # p

\* The instance of p is past its check of the running indicator and has
\* not finalized.
Running(p) == pc[p] \in {"exec", "finalize", "hung"}

\* The invocation of p ended without reaching its finalization.
EndedUncleanly(p) == pc[p] = "done" /\ exitKind[p] \in {"killed", "segv", "fatal"}

\* The instance of p prints the not-terminated-graciously warning in this
\* step.
WarnsUnclean(p) ==
    /\ ~Has(log[p], <<"WARN", WarnUnclean>>)
    /\ Has(log'[p], <<"WARN", WarnUnclean>>)

C23_State == \A p \in Procs : Running(p) => runningFile

C23_Step ==
    \A p \in Procs :
        /\ WarnsUnclean(p) =>
              /\ \E q \in Procs \ {p} : EndedUncleanly(q)
              /\ \A q \in Procs \ {p} : ~Running(q)
        /\ (runningFile /\ ~runningFile') =>
              \A q \in Procs : ~Running(q)'

\* C23: the running indicator exists as long as an instance is between its
\* check of the indicator and the end of its finalization; it is removed
\* only when no such instance is left; and the not-terminated-graciously
\* warning is printed only when an earlier instance ended without
\* finalization and no other instance is running.
C23_IndicatorFollowsInstance == [](C23_State) /\ [][C23_Step]_vars

\* The connections of the instance of p reach its current front-end only.
OnlyCurrentWired(p) ==
    /\ wiring[p].wired = {wiring[p].current}
    /\ wiring[p].tray = {wiring[p].current}

\* C24: in the event loop, whatever front-end changes, hotkey presses and
\* tray activations have occurred, the hotkey, result, session and query
\* signals and the tray activation are connected to the current front-end
\* and to no other, and a tray activation toggles the current front-end
\* only.
C24_OnlyCurrentFrontendWired ==
    \A p \in Procs :
        pc[p] = "exec" =>
            /\ OnlyCurrentWired(p)
            /\ wiring[p].toggled \subseteq {wiring[p].current}

====
